---- MODULE Spec2Model ----
(***************************************************************************)
(* Go-QuickStart (src/main.go): an interactive project launcher.           *)
(*                                                                         *)
(* Three specifications share this module.                                 *)
(*   Spec        one run of runProjectMenu with the Config that readConfig *)
(*               returned: listing, menu loops, recursive runCommand,      *)
(*               editor and dev-server commands.                           *)
(*   LiveSpec    Spec with the fairness termination is claimed under.      *)
(*   ConfigSpec  writeConfig / readConfig on config.json, with the JSON    *)
(*               string encoding modelled character by character.          *)
(*                                                                         *)
(* An action is one stretch of the program between two points where it     *)
(* blocks: a read of the input, an external command, time.Sleep.           *)
(*                                                                         *)
(* Environment.  The directory tree is finite, static and readable while   *)
(* the program runs.  The program reads every directory at most once and   *)
(* only ever descends, so the content of a directory is chosen when the    *)
(* program first looks at it; directories MaxDepth levels below the root   *)
(* directory hold no subdirectories.  os.ReadDir returns the entries       *)
(* sorted by file name: a listing is a subsequence of NameSeq (the root    *)
(* directory) or of SubNameSeq (the directories below it).                *)
(* External commands return with either outcome.                           *)
(***************************************************************************)
EXTENDS Integers, Sequences, FiniteSets, TLC

\* ---------------------------------------------------------------- bounds
\* Depth of the directory tree below the root directory.
MaxDepth == 2

\* Length of the longest Config.ProjectDir string written to config.json.
MaxStrLen == 2

\* time.Sleep(5 * time.Second) before a server command.
Delay == 5

\* Candidate entry names, in the order os.ReadDir returns them: of the root
\* directory, and of the directories below it.
NameSeq == <<"A", "B", "C">>
SubNameSeq == <<"A", "B">>

\* What an entry name can be in a directory.
Kinds == {"none", "file", "dir"}

\* The files runCommand looks for with os.Stat.
Manifest == "package.json"
Marker == "webman"

VARIABLES
    pc,          \* where the program is blocked
    config,      \* the Config main got from readConfig
    cwd,         \* the process working directory, a path
    stack,       \* active runProjectMenu / runCommand calls, innermost last
    screen,      \* terminal output since the last clear
    input,       \* what fmt.Scanln produced in the latest step, if it read
    selections,  \* history: the entries selected so far
    files,       \* which of Manifest, Marker the launched directory holds
    stats,       \* history: the os.Stat calls made, in order
    reads,       \* history: the os.ReadDir calls made, in order
    cmds,        \* history: the external commands started, in order
    slept,       \* seconds spent in time.Sleep
    ret          \* what runProjectMenu returned to main

menuVars == <<pc, config, cwd, stack, screen, input, selections, files, stats,
              reads, cmds, slept, ret>>

VARIABLES
    exeDir,      \* the directory of the running executable
    cfgFile,     \* config.json
    cfgArg,      \* history: the Config last given to writeConfig
    cfgRet,      \* history: what readConfig returned, if it ran since
    created      \* history: whether the latest call ran os.Create

cfgVars == <<exeDir, cfgFile, cfgArg, cfgRet, created>>

vars == <<menuVars, cfgVars>>

\* ------------------------------------------------------------- data
NoError == <<>>
NoInput == [read |-> FALSE, err |-> FALSE, choice |-> 0]

\* The path the process starts in, and Config.ProjectDir.
StartDir == <<"exe">>
ProjectDir == <<"root">>

\* Config.SubDir and Config.Remarks values the runs are checked with.
SubDirChoices ==
    {<<>>, <<"A">>, <<"B">>, <<"C">>, <<"B", "A">>, <<"C", "A">>,
     <<"B", "C">>, <<"A", "B", "C">>}

RemarkChoices ==
    {<<>>,
     <<[Name |-> "B", Remark |-> "r1"], [Name |-> "B", Remark |-> "r2"]>>}

Last(s) == s[Len(s)]
Front(s) == SubSeq(s, 1, Len(s) - 1)
Range(s) == {s[i] : i \in 1..Len(s)}

\* os.ReadDir of a directory `depth` levels below the root directory: every
\* listing it can hold.
Listing(names, k) ==
    LET all == [i \in 1..Len(names) |-> [name |-> names[i], kind |-> k[i]]]
        here == SelectSeq(all, LAMBDA e : e.kind # "none")
    IN  [i \in 1..Len(here) |->
            [name |-> here[i].name, isDir |-> here[i].kind = "dir"]]

ReadDir(depth) ==
    LET names == IF depth = 0 THEN NameSeq ELSE SubNameSeq
    IN  {Listing(names, k) : k \in [1..Len(names) ->
                                      IF depth < MaxDepth THEN Kinds
                                                          ELSE Kinds \ {"dir"}]}

\* ------------------------------------------------------------- helpers
contains(str, subDirs) == \E i \in 1..Len(subDirs) : subDirs[i] = str

\* listFolders with the second loop taking every entry that is not pinned,
\* directory or not.
listFolders_noDirCheck(entries, subDirs) ==
    LET subDirNames == Range(subDirs)
    IN  SelectSeq(entries, LAMBDA e : e.isDir /\ e.name \in subDirNames)
        \o SelectSeq(entries, LAMBDA e : e.name \notin subDirNames)

listFolders(entries, subDirs) ==
    LET subDirNames == Range(subDirs)
    IN  SelectSeq(entries, LAMBDA e : e.isDir /\ e.name \in subDirNames)
        \o SelectSeq(entries, LAMBDA e : e.isDir /\ e.name \notin subDirNames)

\* The remark printed for a folder: the first matching one, in brackets.
remarkOf(folderName, remarks) ==
    LET hits == {i \in 1..Len(remarks) : remarks[i].Name = folderName}
    IN  IF hits = {} THEN ""
        ELSE remarks[CHOOSE i \in hits : \A j \in hits : i <= j].Remark

\* The lines printFolderList writes: a header, then one numbered line for
\* each folder.
printFolderList(folders, subDirs, remarks) ==
    <<<<"header">>>> \o
    [i \in 1..Len(folders) |->
        <<"line", i, folders[i].name,
          IF contains(folders[i].name, subDirs) THEN "*" ELSE "",
          remarkOf(folders[i].name, remarks)>>]

clearScreen(scr) == <<>>

Prompt == <<"prompt">>
ErrLine == <<"invalid choice">>

\* getUserChoice without the upper limit.
getUserChoice_noUpper(scan, maxChoice) ==
    IF scan.err \/ scan.choice < 1
    THEN [choice |-> 0, err |-> TRUE]
    ELSE [choice |-> scan.choice, err |-> FALSE]

\* getUserChoice rejecting the last entry.
getUserChoice_offByOne(scan, maxChoice) ==
    IF scan.err \/ scan.choice < 1 \/ scan.choice >= maxChoice
    THEN [choice |-> 0, err |-> TRUE]
    ELSE [choice |-> scan.choice, err |-> FALSE]

\* getUserChoice after fmt.Scanln produced `scan`.
getUserChoice(scan, maxChoice) ==
    IF scan.err \/ scan.choice < 1 \/ scan.choice > maxChoice
    THEN [choice |-> 0, err |-> TRUE]
    ELSE [choice |-> scan.choice, err |-> FALSE]

\* What fmt.Scanln(&choice) can produce at a menu of n entries: an error
\* (with whatever it parsed before failing) or a parsed integer.
Scans(n) ==
    [read : {TRUE}, err : {FALSE}, choice : 0..(n + 1)]
    \cup [read : {TRUE}, err : {TRUE}, choice : {0, 1}]

\* A change of directory that does not take effect.
Chdir_noop(wd, folder) == wd

\* os.Chdir with a relative folder name.
Chdir(wd, folder) == Append(wd, folder)

\* The pinned check never finding the folder.
isSubDir_never(folder, subDirs) == FALSE

isSubDir(folder, subDirs) == \E i \in 1..Len(subDirs) : subDirs[i] = folder

\* A call frame.
Frame(fn, folder, dir, entries, folders, lines) ==
    [fn |-> fn, folder |-> folder, dir |-> dir, entries |-> entries,
     folders |-> folders, lines |-> lines]

\* A menu loop that drops the error of the call it made.
WrapErr_swallow(err) == NoError

\* An error on its way out of the menu loops that enclose the call that
\* failed: each loop wraps it once.
WrapErr(err) == IF err = NoError THEN NoError ELSE <<"cannot run command">> \o err

RECURSIVE Unwind(_, _)
Unwind(callers, err) ==
    IF callers = <<>> THEN err
    ELSE Unwind(Front(callers), WrapErr(err))

\* main after runProjectMenu returned err.
MainPrint(scr, err) ==
    IF err = NoError THEN scr ELSE Append(scr, <<"fatal", err>>)

\* ------------------------------------------------------------- Init
MenuInit ==
    /\ pc = "main"
    /\ config \in [ProjectDir : {ProjectDir}, SubDir : SubDirChoices,
                   Remarks : RemarkChoices]
    /\ cwd = StartDir
    /\ stack = <<>>
    /\ screen = <<>>
    /\ input = NoInput
    /\ selections = <<>>
    /\ files = {}
    /\ stats = <<>>
    /\ reads = <<>>
    /\ cmds = <<>>
    /\ slept = 0
    /\ ret = NoError

\* ------------------------------------------------------------- config.json
\* A Go string is a sequence of bytes.  The characters told apart are the
\* ones encoding/json treats differently: an ordinary letter, the two it
\* escapes with a backslash, one it writes as a \u escape, a byte that is
\* not valid UTF-8, and U+FFFD, which the encoder puts in place of such a
\* byte.
Chars == {"u", "\"", "\\", "<", "xFF"}
Replacement == "uFFFD"

Strs(n) == UNION {[1..k -> Chars] : k \in 0..n}

\* A Go slice: nil, or its elements.
NilSlice == [nil |-> TRUE, elems |-> <<>>]
Slice(elems) == [nil |-> FALSE, elems |-> elems]

Configs ==
    [ProjectDir : Strs(MaxStrLen),
     SubDir : {NilSlice, Slice(<<>>), Slice(<<<<"\\">>, <<"<", "u">>>>)},
     Remarks : {NilSlice,
                Slice(<<[Name |-> <<"\"">>, Remark |-> <<"u", "\\">>]>>)}]

\* The text json.Encoder writes for one character of a string.
EscapeChar(c) ==
    IF c = "\"" THEN <<"\\", "\"">>
    ELSE IF c = "\\" THEN <<"\\", "\\">>
    ELSE IF c = "<" THEN <<"\\", "u", "0", "0", "3", "c">>
    ELSE IF c = "xFF" THEN <<"\\", "u", "f", "f", "f", "d">>
    ELSE <<c>>

RECURSIVE EscapeString(_)
EscapeString(str) ==
    IF str = <<>> THEN <<>>
    ELSE EscapeChar(Head(str)) \o EscapeString(Tail(str))

\* A JSON string literal.
EncodeString(str) == <<"\"">> \o EscapeString(str) \o <<"\"">>

\* The character a \uXXXX escape stands for.
Hex4(h) ==
    IF h = <<"0", "0", "3", "c">> THEN "<" ELSE Replacement

RECURSIVE Unescape(_)
Unescape(text) ==
    IF text = <<>> THEN <<>>
    ELSE IF Head(text) = "\\"
    THEN IF text[2] = "u"
         THEN <<Hex4(SubSeq(text, 3, 6))>> \o Unescape(SubSeq(text, 7, Len(text)))
         ELSE <<text[2]>> \o Unescape(SubSeq(text, 3, Len(text)))
    ELSE IF Head(text) = "xFF"
    THEN <<Replacement>> \o Unescape(Tail(text))
    ELSE <<Head(text)>> \o Unescape(Tail(text))

\* The Go string a JSON string literal decodes to.
DecodeString(text) == Unescape(SubSeq(text, 2, Len(text) - 1))

\* config.json as json.Encoder writes it: the three keys with their values
\* (a nil slice is written null).  Indentation is not kept.
EncodeConfig(c) ==
    [projectDir |-> EncodeString(c.ProjectDir),
     subDir |-> [null |-> c.SubDir.nil,
                 items |-> [i \in 1..Len(c.SubDir.elems) |->
                               EncodeString(c.SubDir.elems[i])]],
     remarks |-> [null |-> c.Remarks.nil,
                  items |-> [i \in 1..Len(c.Remarks.elems) |->
                                [name |-> EncodeString(c.Remarks.elems[i].Name),
                                 remark |-> EncodeString(c.Remarks.elems[i].Remark)]]]]

\* json.Decoder into a zero Config: null leaves the slice nil.
DecodeConfig(j) ==
    [ProjectDir |-> DecodeString(j.projectDir),
     SubDir |-> [nil |-> j.subDir.null,
                 elems |-> [i \in 1..Len(j.subDir.items) |->
                               DecodeString(j.subDir.items[i])]],
     Remarks |-> [nil |-> j.remarks.null,
                  elems |-> [i \in 1..Len(j.remarks.items) |->
                                [Name |-> DecodeString(j.remarks.items[i].name),
                                 Remark |-> DecodeString(j.remarks.items[i].remark)]]]]

ZeroConfig == [ProjectDir |-> <<>>, SubDir |-> NilSlice, Remarks |-> NilSlice]

\* config.json: absent, or present with text that parses or does not.
NoFile == [exists |-> FALSE, valid |-> FALSE, json |-> EncodeConfig(ZeroConfig)]
BadFile == [exists |-> TRUE, valid |-> FALSE, json |-> EncodeConfig(ZeroConfig)]
FileOf(c) == [exists |-> TRUE, valid |-> TRUE, json |-> EncodeConfig(c)]

NoReturn == [called |-> FALSE, err |-> FALSE, config |-> ZeroConfig]
Returned(c) == [called |-> TRUE, err |-> FALSE, config |-> c]
Failed == [called |-> TRUE, err |-> TRUE, config |-> ZeroConfig]

defaultConfig == [ProjectDir |-> exeDir, SubDir |-> NilSlice, Remarks |-> NilSlice]

\* writeConfig(c), called on its own.
writeConfig(c) ==
    /\ cfgFile' = FileOf(c)
    /\ cfgArg' = c
    /\ cfgRet' = NoReturn
    /\ created' = TRUE
    /\ UNCHANGED exeDir

\* readConfig.
readConfig ==
    /\ IF ~cfgFile.exists
       THEN /\ cfgFile' = FileOf(defaultConfig)
            /\ cfgArg' = defaultConfig
            /\ created' = TRUE
            /\ cfgRet' = Returned(defaultConfig)
       ELSE /\ cfgRet' = IF cfgFile.valid THEN Returned(DecodeConfig(cfgFile.json))
                                          ELSE Failed
            /\ created' = FALSE
            /\ UNCHANGED <<cfgFile, cfgArg>>
    /\ UNCHANGED exeDir

WriteConfigCall ==
    /\ \E c \in Configs : writeConfig(c)
    /\ UNCHANGED menuVars

ReadConfigCall ==
    /\ readConfig
    /\ UNCHANGED menuVars

CfgInit ==
    /\ exeDir \in Strs(1)
    /\ cfgFile \in {NoFile, BadFile}
    /\ cfgArg = ZeroConfig
    /\ cfgRet = NoReturn
    /\ created = FALSE

\* Spec runs with the Config already loaded: config.json is not touched.
CfgIdle ==
    /\ exeDir = <<>>
    /\ cfgFile = NoFile
    /\ cfgArg = ZeroConfig
    /\ cfgRet = NoReturn
    /\ created = FALSE

\* ConfigSpec never enters runProjectMenu.
MenuIdle ==
    /\ pc = "main"
    /\ config = [ProjectDir |-> ProjectDir, SubDir |-> <<>>, Remarks |-> <<>>]
    /\ cwd = StartDir
    /\ stack = <<>>
    /\ screen = <<>>
    /\ input = NoInput
    /\ selections = <<>>
    /\ files = {}
    /\ stats = <<>>
    /\ reads = <<>>
    /\ cmds = <<>>
    /\ slept = 0
    /\ ret = NoError

Init == MenuInit /\ CfgIdle

ConfigInit == CfgInit /\ MenuIdle

ConfigNext == WriteConfigCall \/ ReadConfigCall

ConfigSpec == ConfigInit /\ [][ConfigNext]_vars

\* ------------------------------------------------------------- actions
\* runProjectMenu up to the first read of the input.
runProjectMenu ==
    /\ pc = "main"
    /\ UNCHANGED cfgVars
    /\ \E entries \in ReadDir(0) :
         LET folders == listFolders(entries, config.SubDir)
             lines == printFolderList(folders, config.SubDir, config.Remarks)
         IN  /\ stack' = <<Frame("runProjectMenu", "", config.ProjectDir,
                                 entries, folders, lines)>>
             /\ screen' = screen \o lines \o <<Prompt>>
             /\ reads' = Append(reads, [dir |-> config.ProjectDir,
                                        entries |-> entries])
    /\ cwd' = config.ProjectDir
    /\ pc' = "menu"
    /\ UNCHANGED <<config, input, selections, files, stats, cmds, slept, ret>>

\* A menu loop reads an input that getUserChoice rejects.
InvalidChoice(scan) ==
    /\ pc = "menu"
    /\ UNCHANGED cfgVars
    /\ LET top == Last(stack)
           r == getUserChoice(scan, Len(top.folders))
       IN  /\ r.err
           /\ screen' =
                IF top.fn = "runProjectMenu"
                THEN Append(clearScreen(screen), ErrLine)
                     \o printFolderList(top.folders, config.SubDir, config.Remarks)
                     \o <<Prompt>>
                ELSE Append(clearScreen(screen), ErrLine) \o <<Prompt>>
    /\ input' = scan
    /\ UNCHANGED <<pc, config, cwd, stack, selections, files, stats, reads,
                   cmds, slept, ret>>

\* runCommand(folder) up to the point where it blocks or returns.
runCommand(folder) ==
    LET wd == Chdir(cwd, folder)
        launched == Append(screen, <<"launching", folder>>)
    IN  /\ cwd' = wd
        /\ selections' = Append(selections, folder)
        /\ IF isSubDir(folder, config.SubDir)
           THEN \E entries \in ReadDir(Len(wd) - Len(config.ProjectDir)) :
                  LET folders == listFolders(entries, <<>>)
                      lines == printFolderList(folders, config.SubDir,
                                               config.Remarks)
                  IN  /\ reads' = Append(reads, [dir |-> wd, entries |-> entries])
                      /\ IF Len(folders) = 0
                         THEN /\ ret' = Unwind(stack, NoError)
                              /\ screen' = MainPrint(Append(launched, <<"no folders">>),
                                                     ret')
                              /\ stack' = <<>>
                              /\ pc' = "done"
                              /\ UNCHANGED <<files, cmds>>
                         ELSE /\ stack' = Append(stack,
                                     Frame("runCommand", folder, wd, entries,
                                           folders, lines))
                              /\ screen' = clearScreen(launched) \o lines \o <<Prompt>>
                              /\ pc' = "menu"
                              /\ UNCHANGED <<files, cmds, ret>>
           ELSE \E f \in SUBSET {Manifest, Marker} :
                  /\ files' = f
                  /\ stack' = Append(stack,
                         Frame("runCommand", folder, wd, <<>>, <<>>, <<>>))
                  /\ screen' = launched
                  /\ cmds' = Append(cmds, [name |-> "code", dir |-> wd,
                                           status |-> "running"])
                  /\ pc' = "editor"
                  /\ UNCHANGED <<ret, reads>>

\* A menu loop reads an input that getUserChoice accepts.
Select(scan) ==
    /\ pc = "menu"
    /\ UNCHANGED cfgVars
    /\ LET top == Last(stack)
           r == getUserChoice(scan, Len(top.folders))
       IN  /\ ~r.err
           /\ IF r.choice \in 1..Len(top.folders)
              THEN runCommand(top.folders[r.choice].name)
              ELSE \* index out of range: the Go runtime panics
                   /\ pc' = "panic"
                   /\ UNCHANGED <<cwd, stack, screen, selections, files, reads,
                                  cmds, ret>>
    /\ input' = scan
    /\ UNCHANGED <<config, stats, slept>>

\* The two outcomes of one pass through a menu loop, over every input.
Retry ==
    /\ pc = "menu"
    /\ \E scan \in Scans(Len(Last(stack).folders)) : InvalidChoice(scan)

Choose ==
    /\ pc = "menu"
    /\ \E scan \in Scans(Len(Last(stack).folders)) : Select(scan)

\* The marker looked for before the manifest.
Sniff_markerFirst(present) ==
    IF Marker \in present THEN "webman"
    ELSE IF Manifest \in present THEN "web"
    ELSE "none"

\* Which server, if any, runCommand starts in a directory holding `present`.
Sniff(present) ==
    IF Manifest \in present THEN "web"
    ELSE IF Marker \in present THEN "webman"
    ELSE "none"

\* The os.Stat calls Sniff makes.
SniffStats(present) ==
    IF Manifest \in present THEN <<Manifest>> ELSE <<Manifest, Marker>>

SetStatus(cs, st) == [cs EXCEPT ![Len(cs)].status = st]

\* The editor command returns.
EditorExit(ok) ==
    /\ pc = "editor"
    /\ UNCHANGED cfgVars
    /\ cmds' = SetStatus(cmds, IF ok THEN "ok" ELSE "failed")
    /\ input' = NoInput
    /\ IF ~ok
       THEN /\ ret' = Unwind(Front(stack), <<"editor failed">>)
            /\ screen' = MainPrint(screen, ret')
            /\ stack' = <<>>
            /\ pc' = "done"
            /\ UNCHANGED stats
       ELSE IF Sniff(files) = "web"
       THEN /\ stats' = stats \o SniffStats(files)
            /\ screen' = screen \o <<<<"web project", Last(stack).folder>>,
                                     <<"starting in", Delay>>>>
            /\ pc' = "sleepWeb"
            /\ UNCHANGED <<stack, ret>>
       ELSE IF Sniff(files) = "webman"
       THEN /\ stats' = stats \o SniffStats(files)
            /\ screen' = screen \o <<<<"webman project", Last(stack).folder>>,
                                     <<"starting in", Delay>>>>
            /\ pc' = "sleepWebman"
            /\ UNCHANGED <<stack, ret>>
       ELSE /\ stats' = stats \o SniffStats(files)
            /\ ret' = Unwind(Front(stack), NoError)
            /\ screen' = MainPrint(screen, ret')
            /\ stack' = <<>>
            /\ pc' = "done"
    /\ UNCHANGED <<config, cwd, selections, files, reads, slept>>

\* time.Sleep returns and the server command is started.
SleepDone ==
    /\ pc \in {"sleepWeb", "sleepWebman"}
    /\ UNCHANGED cfgVars
    /\ slept' = slept + Delay
    /\ cmds' = Append(cmds, [name |-> IF pc = "sleepWeb" THEN "npm" ELSE "bat",
                             dir |-> cwd, status |-> "running"])
    /\ pc' = "server"
    /\ input' = NoInput
    /\ UNCHANGED <<config, cwd, stack, screen, selections, files, stats, reads,
                   ret>>

\* The server command returns.
ServerExit(ok) ==
    /\ pc = "server"
    /\ UNCHANGED cfgVars
    /\ cmds' = SetStatus(cmds, IF ok THEN "ok" ELSE "failed")
    /\ ret' = Unwind(Front(stack), NoError)
    /\ screen' = MainPrint(IF ok THEN screen
                           ELSE Append(screen, <<"server failed">>), ret')
    /\ stack' = <<>>
    /\ pc' = "done"
    /\ input' = NoInput
    /\ UNCHANGED <<config, cwd, selections, files, stats, reads, slept>>

Next ==
    \/ runProjectMenu
    \/ Retry
    \/ Choose
    \/ \E ok \in BOOLEAN : EditorExit(ok)
    \/ SleepDone
    \/ \E ok \in BOOLEAN : ServerExit(ok)

Spec == Init /\ [][Next]_vars

\* The user enters a valid number at every menu that has one, and external
\* commands and time.Sleep return.
LiveSpec ==
    /\ Spec
    /\ WF_vars(runProjectMenu)
    /\ WF_vars(Choose)
    /\ WF_vars(\E ok \in BOOLEAN : EditorExit(ok))
    /\ WF_vars(SleepDone)
    /\ WF_vars(\E ok \in BOOLEAN : ServerExit(ok))

\* ============================================================= properties
Names(folders) == [i \in 1..Len(folders) |-> folders[i].name]
Pos(seq, x) == CHOOSE i \in 1..Len(seq) : seq[i] = x
ScreenLines == SelectSeq(screen, LAMBDA x : x[1] = "line")
OnScreen(item) == \E i \in 1..Len(screen) : screen[i] = item
Pins == Range(config.SubDir)
TopMenu == pc = "menu" /\ Len(stack) = 1
NestedMenu == pc = "menu" /\ Len(stack) >= 2
\* The latest step read an input that is not a number in 1..n.
InvalidFor(in, n) == in.read /\ (in.err \/ in.choice < 1 \/ in.choice > n)
ValidFor(in, n) == in.read /\ ~in.err /\ in.choice >= 1 /\ in.choice <= n
Selected == selections' # selections

\* `folders` holds exactly the directories of `entries`, the ones named in
\* `pins` first, each group in the order of `entries`.
IsStablePartition(folders, entries, pins) ==
    /\ \A i \in 1..Len(folders) :
         \E j \in 1..Len(entries) : entries[j] = folders[i] /\ entries[j].isDir
    /\ \A j \in 1..Len(entries) :
         entries[j].isDir =>
           Cardinality({i \in 1..Len(folders) : folders[i] = entries[j]}) = 1
    /\ \A i, j \in 1..Len(folders) :
         i < j =>
           /\ folders[j].name \in pins => folders[i].name \in pins
           /\ (folders[i].name \in pins <=> folders[j].name \in pins)
                => Pos(entries, folders[i]) < Pos(entries, folders[j])

\* C1: listFolders returns exactly the directories of the listing, as a
\* stable partition with the pinned names first, for the pinned set it is
\* given (Config.SubDir at the top level, none below), and the top-level
\* menu shows lines 1..N in exactly that order.
C1_StablePartition ==
    /\ \A k \in 1..Len(stack) :
         IsStablePartition(stack[k].folders, stack[k].entries,
                           IF k = 1 THEN Pins ELSE {})
    /\ TopMenu =>
         /\ stack[1].entries = reads[1].entries
         /\ Len(ScreenLines) = Len(stack[1].folders)
         /\ \A i \in 1..Len(ScreenLines) :
              /\ ScreenLines[i][2] = i
              /\ ScreenLines[i][3] = stack[1].folders[i].name

\* A top-level menu in which a pinned directory was moved ahead of an
\* unpinned one and a non-directory entry was left out.
C1_Witness ==
    /\ TopMenu
    /\ Len(stack[1].entries) = 3
    /\ \E j \in 1..3 : ~stack[1].entries[j].isDir
    /\ Names(stack[1].folders) = <<"B", "A">>
    /\ Len(ScreenLines) = 2

\* C2: at every menu level an invalid input clears the screen, reports an
\* error and shows the same folder list again before the next input is
\* read, and changes neither the list nor the working directory.
C2_InvalidRedisplays ==
    [][(pc = "menu" /\ InvalidFor(input', Len(Last(stack).folders)))
         => /\ pc' = "menu"
            /\ stack' = stack
            /\ cwd' = cwd
            /\ screen' = <<ErrLine>> \o Last(stack).lines \o <<Prompt>>]_vars

\* C3: a menu loop selects only on an input that parses as an integer v
\* with 1 <= v <= N, the entry handed to the launcher is the one displayed
\* at index v, and the folder list is never indexed out of range.
C3_SelectionInRange ==
    /\ [](pc # "panic")
    /\ [][Selected =>
            /\ pc = "menu"
            /\ Len(Last(stack).folders) > 0
            /\ ValidFor(input', Len(Last(stack).folders))
            /\ selections' = Append(selections,
                                    Last(stack).lines[input'.choice + 1][3])
            /\ Last(stack).lines[input'.choice + 1][2] = input'.choice]_vars
    /\ [][(pc = "menu" /\ ~ValidFor(input', Len(Last(stack).folders)))
            => ~Selected]_vars

\* The third entry of a menu was selected.
C3_Witness ==
    /\ pc = "editor"
    /\ input.read /\ ~input.err /\ input.choice = 3
    /\ selections = <<"C">>

\* C4: below a pinned directory the children are listed in on-disk order,
\* none is shown with the pin marker, and selecting any child launches the
\* editor on it, even when its name is a pinned name.
C4_PinningFirstLevelOnly ==
    [][/\ (pc' = "menu" /\ Len(stack') >= 2) =>
            /\ \A i \in 2..Len(Last(stack').lines) : Last(stack').lines[i][4] = ""
            /\ Last(stack').folders
                 = SelectSeq(Last(stack').entries, LAMBDA e : e.isDir)
       /\ (NestedMenu /\ Selected) => pc' = "editor"]_vars

EditorFailed == \E i \in 1..Len(cmds) : cmds[i].name = "code" /\ cmds[i].status = "failed"
EditorOk == \E i \in 1..Len(cmds) : cmds[i].name = "code" /\ cmds[i].status = "ok"
Servers == {i \in 1..Len(cmds) : cmds[i].name \in {"npm", "bat"}}
ServerFailed == \E i \in Servers : cmds[i].status = "failed"

\* C5: an editor failure reaches main through every enclosing menu loop,
\* ends the run, and no manifest or marker check and no server command
\* happens; a server failure is printed only and the run ends with no error.
C5_FailureAsymmetry ==
    /\ EditorFailed =>
         /\ pc = "done"
         /\ ret = [i \in 1..Len(selections) |-> "cannot run command"]
                  \o <<"editor failed">>
         /\ Last(screen) = <<"fatal", ret>>
         /\ stats = <<>>
         /\ Servers = {}
         /\ slept = 0
    /\ ServerFailed =>
         /\ pc = "done"
         /\ ret = NoError
         /\ Last(screen) = <<"server failed">>

\* The editor failed two menus deep, and in another run a server failed.
C5_Witness ==
    /\ EditorFailed
    /\ Len(ret) = 3
    /\ files = {Manifest, Marker}

C5_WitnessServer ==
    /\ pc = "done"
    /\ ServerFailed

\* C6: selecting a pinned top-level entry never starts the editor or a
\* server on that directory: the launcher changes into it and lists its
\* children, reports and stops when there are none, and otherwise shows
\* their menu and applies the launcher to the child chosen there.
\* Selecting an entry that is not pinned starts the editor in its directory.
C6_PinnedTraversed ==
    /\ [](\A i \in 1..Len(cmds) :
            ~(Len(cmds[i].dir) = Len(ProjectDir) + 1 /\ Last(cmds[i].dir) \in Pins))
    /\ [][(TopMenu /\ Selected) =>
            LET s == Last(selections')
                dir == ProjectDir \o <<s>>
            IN  IF s \in Pins
                THEN /\ cwd' = dir
                     /\ cmds' = <<>>
                     /\ Len(reads') = 2
                     /\ reads'[2].dir = dir
                     /\ IF \A j \in 1..Len(reads'[2].entries) :
                              ~reads'[2].entries[j].isDir
                        THEN /\ pc' = "done"
                             /\ ret' = NoError
                             /\ Last(screen') = <<"no folders">>
                        ELSE /\ pc' = "menu"
                             /\ Len(stack') = 2
                             /\ stack'[2].entries = reads'[2].entries
                             /\ Names(stack'[2].folders)
                                  = [i \in 1..Len(ScreenLines') |-> ScreenLines'[i][3]]
                ELSE /\ pc' = "editor"
                     /\ cmds' = <<[name |-> "code", dir |-> dir,
                                   status |-> "running"]>>]_vars
    /\ [][(NestedMenu /\ Selected) =>
            LET child == Last(stack).folders[input'.choice].name
            IN  /\ selections' = Append(selections, child)
                /\ cwd' = Append(cwd, child)
                /\ (child \notin Pins) =>
                     /\ pc' = "editor"
                     /\ Last(cmds').dir = cwd']_vars

\* A child of a pinned directory was chosen and the editor runs in it.
C6_Witness ==
    /\ pc = "editor"
    /\ Len(selections) = 2
    /\ selections[1] \in Pins
    /\ cmds = <<[name |-> "code", dir |-> ProjectDir \o selections,
                 status |-> "running"]>>

\* C7: a server command starts only after the editor succeeded and after
\* the announcement and the delay, at most one per run: the package-manager
\* command iff the manifest is present, the startup script iff the manifest
\* is absent and the marker present, none when neither is present.
C7_ServerAfterEditor ==
    /\ Cardinality(Servers) <= 1
    /\ \A i \in Servers :
         /\ i = 2
         /\ cmds[1].name = "code" /\ cmds[1].status = "ok"
         /\ slept = Delay
         /\ OnScreen(<<"starting in", Delay>>)
         /\ cmds[i].dir = cmds[1].dir
    /\ (Servers = {}) => slept = 0
    /\ (EditorOk /\ pc \in {"server", "done"}) =>
         /\ (\E i \in Servers : cmds[i].name = "npm") <=> Manifest \in files
         /\ (\E i \in Servers : cmds[i].name = "bat")
              <=> (Manifest \notin files /\ Marker \in files)
    /\ (EditorOk /\ pc = "done" /\ files = {}) => Len(cmds) = 1

\* Both the manifest and the marker are present and the run is over.
C7_Witness ==
    /\ pc = "done"
    /\ files = {Manifest, Marker}
    /\ Len(cmds) = 2
    /\ cmds[2].name = "npm"

EmptyRootMenu == TopMenu /\ stack[1].folders = <<>>

\* C10: when the root directory has a subdirectory the run terminates, with
\* no more nested menus than the tree is deep; when it has none the
\* top-level loop rejects every input and never exits.
C10_Termination ==
    /\ (TopMenu /\ stack[1].folders # <<>>) ~> (pc = "done")
    /\ [](pc = "menu" => Len(stack) <= MaxDepth)
    /\ [](Len(selections) <= MaxDepth + 1)
    /\ [][EmptyRootMenu => EmptyRootMenu']_vars

\* A run that went through two nested menus has ended.
C10_Witness ==
    /\ pc = "done"
    /\ Len(reads) >= 2
    /\ Len(selections) >= 2

C10_WitnessEmpty ==
    /\ EmptyRootMenu
    /\ input.read

\* C8: writeConfig(c) followed by readConfig returns a Config with the same
\* root directory, pinned names and remarks; with config.json absent the
\* first load creates it from the executable's directory with no pinned
\* names and no remarks and returns that, and a second load returns an
\* equal Config without rewriting the file.
C8_RoundTrip ==
    /\ (cfgRet.called /\ ~cfgRet.err) => cfgRet.config = cfgArg
    /\ (cfgRet.called /\ ~cfgRet.err) => cfgFile = FileOf(cfgArg)
    /\ (cfgRet.called /\ created) => cfgRet.config = defaultConfig

====
